---- MODULE Spec2Model ----
(***************************************************************************)
(* Model of dmm_dyn4/dyn4.py: the DMMDrive command session of the DYN4      *)
(* servo drive protocol -- frame codec (general_read, general_read2,       *)
(* set_Config, set_speed), frame reader and value decoder (read_response,  *)
(* read_signed_val, sign_extend) and the retry loop (check_response).      *)
(*                                                                         *)
(* The module is Python 2 code (serial.read returns '' on a timeout and    *)
(* ord() is applied to a one-character str); integers are unbounded.       *)
(* Python list indices are 0-based, sequences here are 1-based: arr[k] of  *)
(* the source is arr[k+1] here.                                            *)
(***************************************************************************)
EXTENDS Integers, Sequences, FiniteSets, TLC

VARIABLES
    drive_id,          \* self.drive_id
    pc,                \* position of the caller: "idle", "await", "done"
    op,                \* the public method being executed ("none" when idle)
    tx,                \* what the last serial.write was given, and its count
    rx,                \* bytes the transport holds for the next serial.read
    expected_func_id,  \* check_response: parameter
    max_attempts,      \* check_response: parameter
    i,                 \* check_response: loop index
    func_id,           \* check_response: local func_id
    v,                 \* check_response: local v
    outcome,           \* how the executing method ended: return value or raise
    reads,             \* read_response calls made by the executing method
    misses,            \* of these, the calls that returned another identifier
    hit,               \* the first of these calls whose frame had the expected identifier
    rd                 \* the reader's locals at the end of the last read_response

vars == <<drive_id, pc, op, tx, rx, expected_func_id, max_attempts, i,
          func_id, v, outcome, reads, misses, hit, rd>>

----------------------------------------------------------------------------
(* Python integer operators: >>, <<, &, |, ^ on unbounded integers.  \div  *)
(* and % are floor division and non-negative remainder, which are the      *)
(* two's-complement bits Python uses for negative operands.                *)

RECURSIVE Pow2(_)
Pow2(k) == IF k = 0 THEN 1 ELSE 2 * Pow2(k - 1)

Shr(a, k) == a \div Pow2(k)

Shl(a, k) == a * Pow2(k)

\* a & b, for b >= 0
RECURSIVE BitAnd(_, _)
BitAnd(a, b) ==
    IF b = 0 \/ a = 0 THEN 0
    ELSE (a % 2) * (b % 2) + 2 * BitAnd(a \div 2, b \div 2)

\* a | b, for a, b >= 0
RECURSIVE BitOr(_, _)
BitOr(a, b) ==
    IF a = 0 THEN b
    ELSE IF b = 0 THEN a
    ELSE (IF a % 2 = 1 \/ b % 2 = 1 THEN 1 ELSE 0) + 2 * BitOr(a \div 2, b \div 2)

\* a ^ b, for a, b >= 0
RECURSIVE BitXor(_, _)
BitXor(a, b) ==
    IF a = 0 THEN b
    ELSE IF b = 0 THEN a
    ELSE (IF a % 2 = b % 2 THEN 0 ELSE 1) + 2 * BitXor(a \div 2, b \div 2)

\* sum(list)
RECURSIVE Sum(_)
Sum(s) == IF s = <<>> THEN 0 ELSE s[1] + Sum(Tail(s))

\* list[:-1]
ButLast(s) == SubSeq(s, 1, Len(s) - 1)

\* list[-1]
Last(s) == s[Len(s)]

\* sign_extend that drops the sign bit instead of subtracting it
sign_extend_Unsigned(value, bits) ==
    BitAnd(value, Shl(1, bits - 1) - 1)

sign_extend(value, bits) ==
    LET sign_bit == Shl(1, bits - 1)
    IN  BitAnd(value, sign_bit - 1) - BitAnd(value, sign_bit)

----------------------------------------------------------------------------
(* Python values a method can hand back.                                   *)

IntVal(n) == [t |-> "int", n |-> n]

ListVal(a, b) == [t |-> "list", a |-> a, b |-> b]

Unbound == [t |-> "unbound"]

NoOutcome == [kind |-> "none"]

Returned(val) == [kind |-> "return", val |-> val]

Raised(exc) == [kind |-> "raise", exc |-> exc]

----------------------------------------------------------------------------
(* Frame codec: the packets the four sending methods build.                *)

\* WithChecksum summing the packet without its address byte
WithChecksum_SkipsAddress(packet) ==
    Append(packet, BitOr(128, BitAnd(Sum(Tail(packet)), 127)))

\* packet += [0x80 | (sum(packet) & 0x7f)]
WithChecksum(packet) ==
    Append(packet, BitOr(128, BitAnd(Sum(packet), 127)))

general_read2_packet(did, func_id2) ==
    WithChecksum(<< BitOr(0, did),
                    BitOr(BitOr(128, Shl(0, 5)), func_id2),
                    128 >>)

general_read_packet(did, fid) ==
    WithChecksum(<< BitOr(0, did),
                    BitOr(BitOr(128, Shl(0, 5)), 14),
                    BitOr(128, BitAnd(fid, 127)) >>)

\* cnf of set_Config: (0 << 6) | (1 << 5) | (0x01 << 3) | (0 << 2) | (0x03 << 0)
set_Config_cnf ==
    BitOr(BitOr(BitOr(BitOr(Shl(0, 6), Shl(1, 5)), Shl(1, 3)), Shl(0, 2)), Shl(3, 0))

set_Config_packet(did, func_id2) ==
    WithChecksum(<< BitOr(0, did),
                    BitOr(BitOr(128, Shl(0, 5)), func_id2),
                    BitOr(128, set_Config_cnf) >>)

set_speed_packet(did, rpm) ==
    WithChecksum(<< BitOr(0, did),
                    BitOr(BitOr(128, Shl(3, 5)), 10),
                    BitOr(128, BitAnd(Shr(rpm, 7 * 3), 127)),
                    BitOr(128, BitAnd(Shr(rpm, 7 * 2), 127)),
                    BitOr(128, BitAnd(Shr(rpm, 7 * 1), 127)),
                    BitOr(128, BitAnd(Shr(rpm, 7 * 0), 127)) >>)

\* verify_func_id letting 0x1c and 0x1d through
verify_func_id_NoGap(fid) == 16 <= fid /\ fid <= 30

\* verify_func_id: TRUE when it returns, FALSE when it raises
verify_func_id(fid) == (16 <= fid /\ fid <= 27) \/ fid = 30

host_fids ==
    [ Set_Origin |-> 0, Go_Absolute_Pos |-> 1, Make_LinearLine |-> 2,
      Go_Relative_Pos |-> 3, Make_CircularArc |-> 4, Assign_Drive_ID |-> 5,
      Read_Drive_ID |-> 6, Set_Drive_Config |-> 7, Read_Drive_Config |-> 8,
      Read_Drive_Status |-> 9, Turn_ConstSpeed |-> 10, Square_Wave |-> 11,
      Sin_Wave |-> 12, SS_Frequency |-> 13, General_Read |-> 14,
      ForMotorDefine |-> 15, Set_MainGain |-> 16, Set_SpeedGain |-> 17,
      Set_IntGain |-> 18, Set_TrqCons |-> 19, Set_HighSpeed |-> 20,
      Set_HighAccel |-> 21, Set_Pos_OnRange |-> 22, Set_GearNumber |-> 23,
      Read_MainGain |-> 24, Read_SpeedGain |-> 25, Read_IntGain |-> 26,
      Read_TrqCons |-> 27, Read_HighSpeed |-> 28, Read_HighAccel |-> 29,
      Read_Pos_OnRange |-> 30, Read_GearNumber |-> 31 ]

dyn_fids ==
    [ Is_MainGain |-> 16, Is_SpeedGain |-> 17, Is_IntGain |-> 18,
      Is_TrqCons |-> 19, Is_HighSpeed |-> 20, Is_HighAccel |-> 21,
      Is_Drive_ID |-> 22, Is_Pos_OnRange |-> 23, Is_GearNumber |-> 24,
      Is_Status |-> 25, Is_Config |-> 26, Is_AbsPos32 |-> 27,
      Is_TrqCurrent |-> 30 ]

----------------------------------------------------------------------------
(* Frame reader: the while loop of read_response.                          *)

ReaderInit == [arr |-> <<>>, expected_len |-> 0]

\* ReaderStep taking every frame to be 4 bytes long
ReaderStep_FixedLength(s, x) ==
    LET first_byte == BitAnd(x, 128) = 0
        arr1 == Append(IF first_byte THEN <<>> ELSE s.arr, x)
        len0 == IF first_byte THEN 0 ELSE s.expected_len
    IN  [ arr |-> arr1,
          expected_len |-> IF Len(arr1) = 2 THEN 4 ELSE len0 ]

\* ReaderStep that never starts over
ReaderStep_NoReset(s, x) ==
    LET arr1 == Append(s.arr, x)
    IN  [ arr |-> arr1,
          expected_len |-> IF Len(arr1) = 2
                           THEN 4 + BitAnd(Shr(x, 5), 3)
                           ELSE s.expected_len ]

\* one pass of the loop body for the byte x = ord(self.serial.read(1))
ReaderStep(s, x) ==
    LET first_byte == BitAnd(x, 128) = 0
        arr1 == Append(IF first_byte THEN <<>> ELSE s.arr, x)
        len0 == IF first_byte THEN 0 ELSE s.expected_len
    IN  [ arr |-> arr1,
          expected_len |-> IF Len(arr1) = 2
                           THEN 4 + BitAnd(Shr(x, 5), 3)
                           ELSE len0 ]

\* the loop over the bytes buf holds, k of them read so far; a read with
\* nothing left to deliver returns '' after the timeout
RECURSIVE ReadLoop(_, _, _)
ReadLoop(s, buf, k) ==
    IF k = Len(buf)
    THEN [arr |-> s.arr, expected_len |-> s.expected_len,
          timed_out |-> TRUE, consumed |-> k]
    ELSE LET s1 == ReaderStep(s, buf[k + 1])
         IN  IF Len(s1.arr) = s1.expected_len
             THEN [arr |-> s1.arr, expected_len |-> s1.expected_len,
                   timed_out |-> FALSE, consumed |-> k + 1]
             ELSE ReadLoop(s1, buf, k + 1)

----------------------------------------------------------------------------
(* Value decoder: read_response after the loop, and read_signed_val.       *)

\* crc_check of read_response
crc_check(arr) == BitAnd(BitXor(Sum(ButLast(arr)), Last(arr)), 127) = 0

\* verify_length masking the length code with 0x01 instead of 0x03
verify_length_OneBit(arr, expected_n) == BitAnd(Shr(arr[2], 5), 1) = expected_n

\* verify_length: TRUE when it returns, FALSE when it raises
verify_length(arr, expected_n) == BitAnd(Shr(arr[2], 5), 3) = expected_n

\* SignedFold adding each byte with its high bit
RECURSIVE SignedFold_KeepsHighBit(_, _)
SignedFold_KeepsHighBit(x, ys) ==
    IF ys = <<>> THEN x
    ELSE SignedFold_KeepsHighBit(Shl(x, 7) + ys[1], Tail(ys))

\* the for loop of read_signed_val
RECURSIVE SignedFold(_, _)
SignedFold(x, ys) ==
    IF ys = <<>> THEN x
    ELSE SignedFold(Shl(x, 7) + BitAnd(ys[1], 127), Tail(ys))

read_signed_val(arr) ==
    LET arr2 == SubSeq(arr, 3, Len(arr) - 1)
        x    == Shr(sign_extend(Shl(arr2[1], 1), 8), 1)
    IN  SignedFold(x, Tail(arr2))

\* StatusDict reading bit0 set as in position
StatusDict_Bit0NotInverted(x) ==
    LET x2 == BitAnd(Shr(x, 2), 7)
    IN  [ t |-> "status",
          in_position |-> IF BitAnd(x, Shl(1, 0)) # 0 THEN "1" ELSE "0",
          motor  |-> IF BitAnd(x, Shl(1, 1)) # 0 THEN "motor free" ELSE "motor servo",
          alarm  |-> CASE x2 = 0 -> ""
                       [] x2 = 1 -> "lost phase"
                       [] x2 = 2 -> "over current"
                       [] x2 = 3 -> "overheat or over power"
                       [] x2 = 4 -> "corrupt command"
                       [] x2 > 4 -> "TBD",
          motion |-> IF BitAnd(x, Shl(1, 5)) # 0 THEN "busy" ELSE "completed",
          pin2   |-> IF BitAnd(x, Shl(1, 6)) # 0 THEN "1" ELSE "0" ]

\* the dict built for Is_Status from x = arr[2] & 0x7f
StatusDict(x) ==
    LET x2 == BitAnd(Shr(x, 2), 7)
    IN  [ t |-> "status",
          in_position |-> IF BitAnd(x, Shl(1, 0)) # 0 THEN "0" ELSE "1",
          motor  |-> IF BitAnd(x, Shl(1, 1)) # 0 THEN "motor free" ELSE "motor servo",
          alarm  |-> CASE x2 = 0 -> ""
                       [] x2 = 1 -> "lost phase"
                       [] x2 = 2 -> "over current"
                       [] x2 = 3 -> "overheat or over power"
                       [] x2 = 4 -> "corrupt command"
                       [] x2 > 4 -> "TBD",
          motion |-> IF BitAnd(x, Shl(1, 5)) # 0 THEN "busy" ELSE "completed",
          pin2   |-> IF BitAnd(x, Shl(1, 6)) # 0 THEN "1" ELSE "0" ]

\* ConfigDict taking the servo mode from bits 2-3
ConfigDict_ServoModeShifted(x) ==
    LET m == BitAnd(x, 3)
        s == BitAnd(Shr(x, 2), 3)
    IN  [ t |-> "config",
          input_mode  |-> CASE m = 0 -> "RS232"
                            [] m = 1 -> "CW/CCW"
                            [] m = 2 -> "pulse/dir"
                            [] m = 3 -> "analog",
          positioning |-> IF BitAnd(x, Shl(1, 2)) # 0 THEN "absolute" ELSE "relative",
          servo_mode  |-> CASE s = 0 -> "position"
                            [] s = 1 -> "speed"
                            [] s = 2 -> "torque"
                            [] s = 3 -> "TBD",
          enabled     |-> IF BitAnd(x, Shl(1, 5)) # 0 THEN "yes" ELSE "no",
          b6          |-> IF BitAnd(x, Shl(1, 6)) # 0 THEN "1 TBD" ELSE "0 TBD" ]

\* the dict built for Is_Config from x = arr[2] & 0x7f
ConfigDict(x) ==
    LET m == BitAnd(x, 3)
        s == BitAnd(Shr(x, 3), 3)
    IN  [ t |-> "config",
          input_mode  |-> CASE m = 0 -> "RS232"
                            [] m = 1 -> "CW/CCW"
                            [] m = 2 -> "pulse/dir"
                            [] m = 3 -> "analog",
          positioning |-> IF BitAnd(x, Shl(1, 2)) # 0 THEN "absolute" ELSE "relative",
          servo_mode  |-> CASE s = 0 -> "position"
                            [] s = 1 -> "speed"
                            [] s = 2 -> "torque"
                            [] s = 3 -> "TBD",
          enabled     |-> IF BitAnd(x, Shl(1, 5)) # 0 THEN "yes" ELSE "no",
          b6          |-> IF BitAnd(x, Shl(1, 6)) # 0 THEN "1 TBD" ELSE "0 TBD" ]

\* GearNumberList shifting the high groups by 8 bits
GearNumberList_ByteShift(arr) ==
    ListVal(BitOr(Shl(BitAnd(arr[3], 127), 8), BitAnd(arr[4], 127)),
            BitOr(Shl(BitAnd(arr[5], 127), 8), BitAnd(arr[6], 127)))

\* the list built for Is_GearNumber
GearNumberList(arr) ==
    ListVal(BitOr(Shl(BitAnd(arr[3], 127), 7), BitAnd(arr[4], 127)),
            BitOr(Shl(BitAnd(arr[5], 127), 7), BitAnd(arr[6], 127)))

Decoded(val) == [raise |-> FALSE, x |-> val]

LengthError == [raise |-> TRUE, x |-> Unbound]

\* the value read_response leaves in x for the completed frame arr, or the
\* DMMExceptionUnexpectedLength verify_length raises.  x enters this code
\* holding ord() of the last byte read, and every path that assigns nothing
\* leaves it so.
DecodeValue(arr) ==
    LET fid   == BitAnd(arr[2], 31)
        stale == Decoded(IntVal(Last(arr)))
    IN  IF ~crc_check(arr) THEN stale
        ELSE CASE (0 <= fid /\ fid <= 10) \/ 30 < fid -> stale
               [] fid \in 16..23 ->
                    IF verify_length(arr, 0)
                    THEN Decoded(IntVal(BitAnd(arr[3], 127)))
                    ELSE LengthError
               [] fid = 24 ->
                    IF verify_length(arr, 3)
                    THEN Decoded(GearNumberList(arr))
                    ELSE LengthError
               [] fid = 25 ->
                    IF verify_length(arr, 0)
                    THEN Decoded(StatusDict(BitAnd(arr[3], 127)))
                    ELSE LengthError
               [] fid = 26 ->
                    IF verify_length(arr, 0)
                    THEN Decoded(ConfigDict(BitAnd(arr[3], 127)))
                    ELSE LengthError
               [] fid = 27 -> Decoded(IntVal(read_signed_val(arr)))
               [] fid \in {28, 29} -> stale
               [] fid = 30 -> Decoded(IntVal(read_signed_val(arr)))
               [] OTHER -> stale

\* read_response after its loop, loc being the locals the loop left:
\* "False" on a timeout, a (func_id, x) tuple, or a raise
ReadResult(loc) ==
    IF loc.timed_out
    THEN [kind |-> "False", func_id |-> -1, x |-> Unbound, exc |-> "", loc |-> loc]
    ELSE IF ~(loc.arr # <<>> /\ loc.expected_len = Len(loc.arr))
    THEN [kind |-> "raise", func_id |-> -1, x |-> Unbound,
          exc |-> "UnboundLocalError", loc |-> loc]
    ELSE LET d == DecodeValue(loc.arr)
         IN  IF d.raise
             THEN [kind |-> "raise", func_id |-> -1, x |-> Unbound,
                   exc |-> "DMMExceptionUnexpectedLength", loc |-> loc]
             ELSE [kind |-> "tuple", func_id |-> BitAnd(loc.arr[2], 31),
                   x |-> d.x, exc |-> "", loc |-> loc]

\* read_response on a transport holding buf
read_response(buf) == ReadResult(ReadLoop(ReaderInit, buf, 0))

----------------------------------------------------------------------------
(* Inputs: what callers pass and what the drive puts on the link.          *)

\* drive addresses a session is opened with: 5 bits
DriveAddresses == 0 .. 31

SessionAddresses == {0, 31}

\* drive_id values the constructor is given: it stores any of them, the
\* 5-bit addresses and integers that are none
ConstructorDriveIds == DriveAddresses \cup {33, 129}

\* function identifiers passed to general_read and general_read2
FuncIdArgs == 0 .. 31

\* what callers pass to general_read: the identifiers, and integers that
\* are no 5-bit identifier (0x90 and 0x9e have the low bits of 0x10 and 0x1e)
GeneralReadArgs == FuncIdArgs \cup {-1, 32, 127, 144, 158}

\* largest max_attempts a caller passes to check_response
MaxAttempts == 3

\* max_attempts=3 of check_response
DefaultMaxAttempts == 3

\* expected_func_id of direct check_response calls
DirectExpected == {5, 12, 16, 24, 27, 28}

\* rpm values passed to set_speed
Rpms == {0, 1, 50, -1, -50, 127, 128, 16383, 16384, 2097151, 2097152,
         134217727, -134217728, -2097153, -128, -129, -16385,
         134217728, -134217729}

\* counts serial.write may report for a packet
WriteCounts(packet) == 0 .. Len(packet)

\* a frame as the drive (or noise on the link) lays it out: byte0, the
\* function byte with its length code, the payload, and a checksum byte
\* that is off by delta
DriveFrame(b0, fid, lc, payload, delta) ==
    LET body == <<b0, 128 + 32 * lc + fid>>
                \o [k \in 1 .. Len(payload) |-> 128 + payload[k]]
    IN  Append(body, 128 + ((Sum(body) + delta) % 128))

SessionFrames ==
    {DriveFrame(1, f, 0, <<34>>, d) : f \in 0 .. 31, d \in {0, 1}}
    \cup {DriveFrame(1, f, 3, <<1, 2, 3, 4>>, 0) : f \in 0 .. 31}
    \cup {DriveFrame(1, f, 0, <<93>>, 0) : f \in {16, 25, 27}}
    \cup {DriveFrame(1, f, 1, <<127, 127>>, 0) : f \in {16, 27}}
    \cup {DriveFrame(1, f, 2, <<64, 0, 1>>, 0) : f \in {16, 27}}
    \cup {DriveFrame(1, f, 3, <<1, 2, 3, 4>>, 1) : f \in {24, 27}}
    \cup {DriveFrame(129, f, 0, <<34>>, 0) : f \in {5, 16}}

\* what arrives while one read_response call polls: nothing, a frame, the
\* start of a frame, or the start of a frame or a noise byte and then a frame
SessionStreams ==
    SessionFrames
    \cup {<<>>, <<1>>, <<1, 144>>, <<1, 144, 162>>}
    \cup {<<1, 144>> \o DriveFrame(1, 16, 0, <<34>>, 0),
          <<170>> \o DriveFrame(1, 24, 3, <<1, 2, 3, 4>>, 0),
          DriveFrame(1, 17, 0, <<34>>, 0) \o DriveFrame(1, 16, 0, <<93>>, 0)}

\* the read_* methods: how the request is sent, the identifier sent and the
\* identifier awaited
ReadOps ==
    { [name |-> "read_MainGain",    via |-> "general_read2", req |-> host_fids.Read_MainGain,     exp |-> dyn_fids.Is_MainGain],
      [name |-> "read_SpeedGain",   via |-> "general_read2", req |-> host_fids.Read_SpeedGain,    exp |-> dyn_fids.Is_SpeedGain],
      [name |-> "read_IntGain",     via |-> "general_read2", req |-> host_fids.Read_IntGain,      exp |-> dyn_fids.Is_IntGain],
      [name |-> "read_TrqCons",     via |-> "general_read2", req |-> host_fids.Read_TrqCons,      exp |-> dyn_fids.Is_TrqCons],
      [name |-> "read_HighSpeed",   via |-> "general_read2", req |-> host_fids.Read_HighSpeed,    exp |-> dyn_fids.Is_HighSpeed],
      [name |-> "read_HighAccel",   via |-> "general_read2", req |-> host_fids.Read_HighAccel,    exp |-> dyn_fids.Is_HighAccel],
      [name |-> "read_Pos_OnRange", via |-> "general_read2", req |-> host_fids.Read_Pos_OnRange,  exp |-> dyn_fids.Is_Pos_OnRange],
      [name |-> "read_GearNumber",  via |-> "general_read2", req |-> host_fids.Read_GearNumber,   exp |-> dyn_fids.Is_GearNumber],
      [name |-> "read_Status",      via |-> "general_read2", req |-> host_fids.Read_Drive_Status, exp |-> dyn_fids.Is_Status],
      [name |-> "read_Config",      via |-> "general_read2", req |-> host_fids.Read_Drive_Config, exp |-> dyn_fids.Is_Config],
      [name |-> "read_AbsPos32",    via |-> "general_read",  req |-> dyn_fids.Is_AbsPos32,        exp |-> dyn_fids.Is_AbsPos32],
      [name |-> "read_TrqCurrent",  via |-> "general_read",  req |-> dyn_fids.Is_TrqCurrent,      exp |-> dyn_fids.Is_TrqCurrent] }

----------------------------------------------------------------------------
(* State.                                                                  *)

NoWrite == [packet |-> <<>>, n |-> 0]

NoRead == [arr |-> <<>>, expected_len |-> 0, timed_out |-> FALSE, consumed |-> 0]

\* the locals of check_response before the call: func_id -1 stands for unbound
IdleLocals ==
    /\ pc = "idle"
    /\ op = "none"
    /\ expected_func_id = -1
    /\ max_attempts = 0
    /\ i = 0
    /\ func_id = -1
    /\ v = Unbound
    /\ outcome = NoOutcome
    /\ reads = 0
    /\ misses = 0
    /\ hit = 0
    /\ rd = NoRead

Init ==
    /\ drive_id \in SessionAddresses
    /\ tx = NoWrite
    /\ rx = <<>>
    /\ IdleLocals

----------------------------------------------------------------------------
(* Operations.                                                             *)

NoneVal == [t |-> "None"]

FalseVal == [t |-> "bool", b |-> FALSE]

TupleVal(f, x) == [t |-> "tuple", func_id |-> f, x |-> x]

\* WriteOutcome that never looks at the count
WriteOutcome_IgnoresCount(packet, n) == Returned(NoneVal)

\* n = self.serial.write(packet); if n != len(packet): raise ...
WriteOutcome(packet, n) ==
    IF n # Len(packet) THEN Raised("DMMExceptionTruncatedWrite")
    ELSE Returned(NoneVal)

\* Matches with the comparison inverted
Matches_Inverted(fid, expected) == fid # expected

\* the break condition of the loop of check_response
Matches(fid, expected) == fid = expected

\* the condition under which check_response raises after its loop; ilast is
\* the value the loop left in i
Exhausted(ilast, attempts) == ilast = attempts

\* check_response after its loop
AfterLoop(ilast, attempts, val) ==
    IF Exhausted(ilast, attempts) THEN Raised("DMMExceptionUnexpectedFunc")
    ELSE Returned(val)

\* the bytes of buf a read_response call that consumed k of them leaves
Rest(buf, k) == SubSeq(buf, k + 1, Len(buf))

NotCalled == UNCHANGED <<expected_func_id, max_attempts, i, func_id, v, reads, misses, hit, rd>>

\* a method that only writes: packet built, written, count checked
WriteOnly(name, packet) ==
    /\ \E n \in WriteCounts(packet) :
          /\ tx' = [packet |-> packet, n |-> n]
          /\ outcome' = WriteOutcome(packet, n)
    /\ pc' = "done"
    /\ op' = name
    /\ NotCalled
    /\ UNCHANGED <<drive_id, rx>>

general_read2(func_id2) ==
    /\ pc = "idle"
    /\ WriteOnly("general_read2", general_read2_packet(drive_id, func_id2))

general_read(fid) ==
    /\ pc = "idle"
    /\ IF verify_func_id(fid)
       THEN WriteOnly("general_read", general_read_packet(drive_id, fid))
       ELSE /\ pc' = "done"
            /\ op' = "general_read"
            /\ outcome' = Raised("DMMExceptionUnknownFunctionID")
            /\ NotCalled
            /\ UNCHANGED <<drive_id, rx, tx>>

set_Config ==
    /\ pc = "idle"
    /\ WriteOnly("set_Config", set_Config_packet(drive_id, host_fids.Set_Drive_Config))

set_speed(rpm) ==
    /\ pc = "idle"
    /\ WriteOnly("set_speed", set_speed_packet(drive_id, rpm))

\* entry of check_response: nothing read yet
EnterCheckResponse(expected, attempts) ==
    /\ pc' = "await"
    /\ expected_func_id' = expected
    /\ max_attempts' = attempts
    /\ i' = 0
    /\ outcome' = NoOutcome
    /\ UNCHANGED <<func_id, v, reads, misses, hit, rd>>

\* read_MainGain .. read_TrqCurrent, up to the first read of check_response
read_op(o) ==
    /\ pc = "idle"
    /\ op' = o.name
    /\ UNCHANGED <<drive_id, rx>>
    /\ IF o.via = "general_read" /\ ~verify_func_id(o.req)
       THEN /\ pc' = "done"
            /\ outcome' = Raised("DMMExceptionUnknownFunctionID")
            /\ NotCalled
            /\ UNCHANGED tx
       ELSE LET packet == IF o.via = "general_read"
                          THEN general_read_packet(drive_id, o.req)
                          ELSE general_read2_packet(drive_id, o.req)
            IN  \E n \in WriteCounts(packet) :
                   /\ tx' = [packet |-> packet, n |-> n]
                   /\ IF WriteOutcome(packet, n).kind = "raise"
                      THEN /\ pc' = "done"
                           /\ outcome' = WriteOutcome(packet, n)
                           /\ NotCalled
                      ELSE EnterCheckResponse(o.exp, DefaultMaxAttempts)

\* check_response called by itself
check_response(expected, attempts) ==
    /\ pc = "idle"
    /\ op' = "check_response"
    /\ EnterCheckResponse(expected, attempts)
    /\ UNCHANGED <<drive_id, rx, tx>>

\* read_response of every stream of SessionStreams on an empty transport
SessionReads == [s \in SessionStreams |-> read_response(s)]

\* LeftByCheckResponse with the request written again on every pass
LeftByCheckResponse_Resends ==
    /\ tx' = [packet |-> tx.packet \o tx.packet, n |-> 2 * tx.n]
    /\ UNCHANGED <<drive_id, op, expected_func_id, max_attempts>>

\* what a pass of the loop of check_response leaves alone: it writes
\* nothing and assigns neither its parameters nor the session's fields
LeftByCheckResponse ==
    UNCHANGED <<drive_id, op, tx, expected_func_id, max_attempts>>

\* one pass of the loop of check_response, and what follows the loop when
\* this pass ends it; s is what the link delivers while read_response polls
\* (nothing more while the transport still holds bytes of an earlier delivery).
\* The locals func_id and v go when the method returns or raises.
check_response_attempt(s) ==
    /\ pc = "await"
    /\ rx = <<>> \/ s = <<>>
    /\ LET buf == rx \o s
           r   == IF rx = <<>> THEN SessionReads[s] ELSE read_response(buf)
           fid == IF r.loc.timed_out THEN -1 ELSE BitAnd(r.loc.arr[2], 31)
       IN  /\ rx' = Rest(buf, r.loc.consumed)
           /\ rd' = r.loc
           /\ reads' = reads + 1
           /\ hit' = IF hit = 0 /\ fid = expected_func_id THEN reads + 1 ELSE hit
           /\ misses' = IF r.kind = "tuple" /\ r.func_id # expected_func_id
                        THEN misses + 1 ELSE misses
           /\ CASE r.kind = "False" ->
                     \* func_id, v = False
                     /\ outcome' = Raised("TypeError")
                     /\ pc' = "done"
                     /\ func_id' = -1
                     /\ v' = Unbound
                     /\ i' = i
                [] r.kind = "raise" ->
                     /\ outcome' = Raised(r.exc)
                     /\ pc' = "done"
                     /\ func_id' = -1
                     /\ v' = Unbound
                     /\ i' = i
                [] r.kind = "tuple" ->
                     IF Matches(r.func_id, expected_func_id) \/ i + 1 >= max_attempts
                     THEN /\ outcome' = AfterLoop(i, max_attempts, r.x)
                          /\ pc' = "done"
                          /\ func_id' = -1
                          /\ v' = Unbound
                          /\ i' = i
                     ELSE /\ outcome' = outcome
                          /\ pc' = "await"
                          /\ func_id' = r.func_id
                          /\ v' = r.x
                          /\ i' = i + 1
    /\ LeftByCheckResponse

\* how a read_response call that produced r ends for its caller
Ends(r) ==
    CASE r.kind = "False" -> Returned(FalseVal)
      [] r.kind = "raise" -> Raised(r.exc)
      [] r.kind = "tuple" -> Returned(TupleVal(r.func_id, r.x))

\* read_response called by itself on what the transport holds
call_read_response ==
    /\ pc = "idle"
    /\ LET r == read_response(rx)
       IN  /\ rx' = Rest(rx, r.loc.consumed)
           /\ rd' = r.loc
           /\ outcome' = Ends(r)
    /\ pc' = "done"
    /\ op' = "read_response"
    /\ reads' = 1
    /\ UNCHANGED <<drive_id, tx, expected_func_id, max_attempts, i, func_id, v, misses, hit>>

\* the method returns or its exception reaches the caller; its locals go
Return ==
    /\ pc = "done"
    /\ pc' = "idle"
    /\ op' = "none"
    /\ tx' = NoWrite
    /\ expected_func_id' = -1
    /\ max_attempts' = 0
    /\ i' = 0
    /\ func_id' = -1
    /\ v' = Unbound
    /\ outcome' = NoOutcome
    /\ reads' = 0
    /\ misses' = 0
    /\ hit' = 0
    /\ rd' = NoRead
    /\ UNCHANGED <<drive_id, rx>>

Next ==
    \/ \E o \in ReadOps : read_op(o)
    \/ \E e \in DirectExpected, m \in 1 .. MaxAttempts : check_response(e, m)
    \/ \E s \in SessionStreams : check_response_attempt(s)
    \/ \E f \in FuncIdArgs : general_read2(f)
    \/ \E f \in GeneralReadArgs : general_read(f)
    \/ set_Config
    \/ \E r \in Rpms : set_speed(r)
    \/ call_read_response
    \/ Return

Spec == Init /\ [][Next]_vars

----------------------------------------------------------------------------
(* The decoder alone: read_response called on a transport that holds one   *)
(* frame from the drive.                                                   *)

\* payload bytes of the multi-byte frames fed to the decoder
SignedBytes == {0, 1, 63, 64, 127}

GearBytes == {0, 1, 2, 3, 4, 127}

Payloads(B, n) ==
    CASE n = 1 -> {<<a>> : a \in B}
      [] n = 2 -> {<<a, b>> : a \in B, b \in B}
      [] n = 3 -> {<<a, b, c>> : a \in B, b \in B, c \in B}
      [] n = 4 -> {<<a, b, c, d>> : a \in B, b \in B, c \in B, d \in B}

DecodeFrames ==
    {DriveFrame(b0, f, 0, <<p>>, 0) : b0 \in {1, 31}, f \in {25, 26}, p \in 0 .. 127}
    \cup {DriveFrame(1, f, 0, <<p>>, 0) : f \in {27, 30}, p \in 0 .. 127}
    \cup UNION {{DriveFrame(1, f, n - 1, p, 0) : p \in Payloads(SignedBytes, n)} :
                   f \in {27, 30}, n \in 2 .. 4}
    \cup {DriveFrame(1, 24, 3, p, 0) : p \in Payloads(GearBytes, 4)}
    \cup {DriveFrame(1, f, 0, <<p>>, 0) : f \in 16 .. 23, p \in {0, 34, 127}}
    \cup {DriveFrame(1, f, lc, <<34, 1, 2, 3>>, 0) : f \in {16, 24, 25, 26}, lc \in 0 .. 3}
    \cup {DriveFrame(1, f, 0, <<34>>, 1) : f \in {24, 25, 26, 27}}

Init_Decode ==
    /\ drive_id = 0
    /\ tx = NoWrite
    /\ rx \in DecodeFrames
    /\ IdleLocals

Next_Decode ==
    \/ call_read_response
    \/ Return

SpecDecode == Init_Decode /\ [][Next_Decode]_vars

----------------------------------------------------------------------------
(* The codec alone, with the link wired back: every packet a sending       *)
(* method writes in full comes back as the input of read_response.         *)

loopback_read_response ==
    /\ pc = "done"
    /\ reads = 0
    /\ outcome = Returned(NoneVal)
    /\ tx.packet # <<>>
    /\ LET buf == rx \o tx.packet
           r   == read_response(buf)
       IN  /\ rx' = Rest(buf, r.loc.consumed)
           /\ rd' = r.loc
           /\ outcome' = Ends(r)
    /\ reads' = 1
    /\ UNCHANGED <<drive_id, pc, op, tx, expected_func_id, max_attempts, i,
                   func_id, v, misses, hit>>

Init_Codec ==
    /\ drive_id \in ConstructorDriveIds
    /\ tx = NoWrite
    /\ rx = <<>>
    /\ IdleLocals

Next_Codec ==
    \/ \E f \in FuncIdArgs : general_read2(f)
    \/ \E f \in GeneralReadArgs : general_read(f)
    \/ set_Config
    \/ \E r \in Rpms : set_speed(r)
    \/ loopback_read_response
    \/ Return

SpecCodec == Init_Codec /\ [][Next_Codec]_vars

----------------------------------------------------------------------------
(* The reader alone, byte by byte: read_response on a transport that holds *)
(* what a noisy link delivered -- the start of a frame, a frame, or both.  *)

\* the starts of frames that were cut off
PartialFrames ==
    {<<1>>, <<1, 144>>, <<1, 144, 162>>, <<31, 240>>, <<31, 240, 129>>,
     <<1, 251, 129, 130, 131, 132>>, <<0, 176, 255, 255>>}

\* bytes with the high bit set and no start byte before them
HeadlessBytes == {<<170>>, <<144, 162, 179>>}

WholeFrames ==
    {DriveFrame(b0, f, 0, <<34>>, d) : b0 \in {1, 31}, f \in {5, 16, 24, 27}, d \in {0, 1}}
    \cup {DriveFrame(1, f, 1, <<64, 1>>, 0) : f \in {16, 27}}
    \cup {DriveFrame(1, f, 2, <<127, 127, 127>>, 0) : f \in {27, 30}}
    \cup {DriveFrame(1, f, 3, <<1, 2, 3, 4>>, 0) : f \in {24, 27}}

ReaderStreams ==
    {<<>>}
    \cup PartialFrames
    \cup WholeFrames
    \cup {q \o f : q \in PartialFrames \cup HeadlessBytes, f \in WholeFrames}
    \cup {q \o r \o f : q \in {<<1, 144>>}, r \in {<<31, 240, 129>>}, f \in WholeFrames}
    \cup {DriveFrame(129, 16, 0, <<34>>, 0),
          DriveFrame(1, 17, 0, <<34>>, 0) \o DriveFrame(1, 16, 0, <<93>>, 0)}

Init_Reader ==
    /\ drive_id = 0
    /\ tx = NoWrite
    /\ rx \in ReaderStreams
    /\ IdleLocals

\* read_response up to its loop
read_response_enter ==
    /\ pc = "idle"
    /\ pc' = "reading"
    /\ op' = "read_response"
    /\ rd' = [arr |-> ReaderInit.arr, expected_len |-> ReaderInit.expected_len,
              timed_out |-> FALSE, consumed |-> 0]
    /\ reads' = 1
    /\ UNCHANGED <<drive_id, tx, rx, expected_func_id, max_attempts, i, func_id,
                   v, outcome, misses, hit>>

\* one pass of the loop of read_response, and what follows the loop when
\* this pass ends it
read_response_loop ==
    /\ pc = "reading"
    /\ IF rx = <<>>
       THEN LET loc == [rd EXCEPT !.timed_out = TRUE]
            IN  /\ rd' = loc
                /\ rx' = rx
                /\ pc' = "done"
                /\ outcome' = Ends(ReadResult(loc))
       ELSE LET s1  == ReaderStep([arr |-> rd.arr, expected_len |-> rd.expected_len],
                                 Head(rx))
                loc == [arr |-> s1.arr, expected_len |-> s1.expected_len,
                        timed_out |-> FALSE, consumed |-> rd.consumed + 1]
            IN  /\ rd' = loc
                /\ rx' = Tail(rx)
                /\ IF Len(s1.arr) = s1.expected_len
                   THEN /\ pc' = "done"
                        /\ outcome' = Ends(ReadResult(loc))
                   ELSE /\ pc' = "reading"
                        /\ outcome' = outcome
    /\ UNCHANGED <<drive_id, op, tx, expected_func_id, max_attempts, i, func_id,
                   v, reads, misses, hit>>

Next_Reader ==
    \/ read_response_enter
    \/ read_response_loop
    \/ call_read_response
    \/ Return

SpecReader == Init_Reader /\ [][Next_Reader]_vars

----------------------------------------------------------------------------
(* Properties.  The protocol's own vocabulary, in arithmetic.              *)

FrameFid(frame) == frame[2] % 32

FrameLengthCode(frame) == (frame[2] \div 32) % 4

FramePayload(frame) == SubSeq(frame, 3, Len(frame) - 1)

\* (sum(frame[:-1]) ^ frame[-1]) & 0x7f == 0
ChecksumRelation(frame) == Sum(ButLast(frame)) % 128 = Last(frame) % 128

\* the length code the decoder expects of an identifier, -1 when it expects none
ExpectedLengthCode(fid) ==
    IF fid \in (16 .. 23) \cup {25, 26} THEN 0
    ELSE IF fid = 24 THEN 3
    ELSE -1

\* identifiers that are unallowed (0x00-0x0a, above 0x1e) or unknown (0x1c, 0x1d)
NoValueFid(fid) == fid \in (0 .. 10) \cup {28, 29} \/ fid > 30

\* a check_response call is under way or has just ended
InCheckResponse == max_attempts > 0

\* the last read_response call completed a frame
FrameRead == reads > 0 /\ ~rd.timed_out

\* C1: when check_response has read max_attempts frames and none of them
\* carried the expected function identifier, it ends by raising
\* DMMExceptionUnexpectedFunc (and so returns no value).
C1_RetryExhaustion ==
    (pc = "done" /\ InCheckResponse /\ reads = max_attempts /\ misses = max_attempts)
        => outcome = Raised("DMMExceptionUnexpectedFunc")

\* C2, as claimed: whenever, within the budget and after non-matching frames
\* only, a frame with the expected function identifier is read,
\* check_response returns the value decoded from that frame and reads no
\* further frame.
C2_MatchReturns_AsClaimed ==
    (InCheckResponse /\ hit # 0 /\ misses = hit - 1)
        => /\ pc = "done"
           /\ reads = hit
           /\ outcome = Returned(DecodeValue(rd.arr).x)

\* C2, amended: the same, for a matching frame on which read_response does
\* not raise DMMExceptionUnexpectedLength; what comes back is the value
\* read_response produced for that frame.
C2_MatchReturns ==
    (InCheckResponse /\ hit # 0 /\ misses = hit - 1 /\ ~DecodeValue(rd.arr).raise)
        => /\ pc = "done"
           /\ reads = hit
           /\ outcome = Returned(DecodeValue(rd.arr).x)

\* C2 witness: two non-matching frames, then a frame of the awaited
\* identifier 0x10 carrying 93, which is what the call returned.
C2_Witness ==
    /\ pc = "done"
    /\ expected_func_id = 16
    /\ hit = 3
    /\ misses = 2
    /\ outcome = Returned(IntVal(93))

\* C3: a read that times out inside check_response is one failed attempt:
\* the call goes on to the next attempt while attempts remain, and when the
\* last attempt times out it raises DMMExceptionUnexpectedFunc, nothing else.
C3_TimeoutIsFailedAttempt ==
    (InCheckResponse /\ reads > 0 /\ rd.timed_out)
        => IF reads < max_attempts
           THEN pc = "await"
           ELSE outcome = Raised("DMMExceptionUnexpectedFunc")

\* C4: check_response never returns a value taken from a frame whose
\* checksum relation does not hold: the frame behind a returned value is
\* checksum-valid.
C4_NoValueFromBadChecksum ==
    (pc = "done" /\ InCheckResponse /\ outcome.kind = "return")
        => ChecksumRelation(rd.arr)

\* C5: check_response never returns a value that comes from a
\* checksum-valid frame with an unallowed or unknown function identifier.
C5_NoValueFromUnallowedFid ==
    (pc = "done" /\ InCheckResponse /\ outcome.kind = "return")
        => ~(ChecksumRelation(rd.arr) /\ NoValueFid(FrameFid(rd.arr)))

\* C6: a completed checksum-valid frame whose identifier has an expected
\* length code and whose length code differs from it makes read_response
\* raise DMMExceptionUnexpectedLength, and that error ends the call (of
\* read_response, or of the check_response around it) at once: no value,
\* no further attempt.
C6_LengthMismatchRaises ==
    ( /\ FrameRead
      /\ ChecksumRelation(rd.arr)
      /\ ExpectedLengthCode(FrameFid(rd.arr)) # -1
      /\ FrameLengthCode(rd.arr) # ExpectedLengthCode(FrameFid(rd.arr)) )
        => /\ pc = "done"
           /\ outcome = Raised("DMMExceptionUnexpectedLength")

\* C6 witness: the second attempt of a check_response call read a 4-byte
\* frame of identifier 0x18, which expects length code 3, and the call
\* ended with the length error.
C6_Witness ==
    /\ pc = "done"
    /\ InCheckResponse
    /\ reads = 2
    /\ FrameRead
    /\ ChecksumRelation(rd.arr)
    /\ FrameFid(rd.arr) = 24
    /\ FrameLengthCode(rd.arr) = 0
    /\ outcome = Raised("DMMExceptionUnexpectedLength")

\* C7: every packet handed to the transport ends with the checksum byte
\* 0x80 | (sum of the preceding bytes & 0x7f), so the checksum relation
\* holds of it.
C7_OutboundChecksum ==
    tx.packet # <<>>
        => /\ Last(tx.packet) = 128 + (Sum(ButLast(tx.packet)) % 128)
           /\ ChecksumRelation(tx.packet)

\* C7 witness: set_speed on drive 31 handed a 7-byte packet with a
\* negative speed to the transport.
C7_Witness ==
    /\ op = "set_speed"
    /\ drive_id = 31
    /\ tx.packet = <<31, 234, 255, 255, 255, 206, 212>>

\* C8: a packet built by the codec and fed byte by byte to the reader loop
\* of read_response stops the reader after exactly its last byte, is
\* accumulated byte for byte, and passes the checksum validation.
C8_RoundTrip ==
    (pc = "done" /\ reads = 1 /\ tx.packet # <<>>)
        => /\ ~rd.timed_out
           /\ rd.consumed = Len(tx.packet)
           /\ rx = <<>>
           /\ rd.arr = tx.packet
           /\ rd.expected_len = Len(tx.packet)
           /\ crc_check(rd.arr)
           /\ ChecksumRelation(rd.arr)

\* C8 witness: the 7-byte packet of set_speed came back through the reader.
C8_Witness ==
    /\ pc = "done"
    /\ reads = 1
    /\ op = "set_speed"
    /\ Len(tx.packet) = 7
    /\ rd.arr = tx.packet

\* the payload's low 7 bits, concatenated big-endian
RECURSIVE Unsigned7(_)
Unsigned7(bytes) ==
    IF bytes = <<>> THEN 0
    ELSE (Last(bytes) % 128) + 128 * Unsigned7(ButLast(bytes))

\* the two's-complement value of the bits-wide pattern u
TwosComplement(u, bits) ==
    IF u >= Pow2(bits - 1) THEN u - Pow2(bits) ELSE u

\* C9: a checksum-valid frame of identifier 0x1b or 0x1e with n payload
\* bytes decodes to the two's-complement value of the 7n-bit big-endian
\* concatenation of the payload's low 7 bits (one byte: -64..63, 0x7f is -1).
C9_SignedDecode ==
    ( /\ pc = "done"
      /\ op = "read_response"
      /\ FrameRead
      /\ ChecksumRelation(rd.arr)
      /\ FrameFid(rd.arr) \in {27, 30} )
        => outcome = Returned(TupleVal(FrameFid(rd.arr),
                        IntVal(TwosComplement(Unsigned7(FramePayload(rd.arr)),
                                              7 * Len(FramePayload(rd.arr))))))

\* C9 witness: the one-byte payload 0x7f was decoded, to -1.
C9_Witness ==
    /\ pc = "done"
    /\ op = "read_response"
    /\ FrameRead
    /\ FrameFid(rd.arr) = 27
    /\ FramePayload(rd.arr) = <<255>>
    /\ outcome = Returned(TupleVal(27, IntVal(-1)))

\* a status frame has just been decoded by read_response
StatusDecoded ==
    /\ pc = "done"
    /\ op = "read_response"
    /\ FrameRead
    /\ ChecksumRelation(rd.arr)
    /\ Len(rd.arr) = 4
    /\ FrameFid(rd.arr) = 25

\* the status value s = byte2 & 0x7f of the frame just read
StatusValue == rd.arr[3] % 128

AlarmName(a) ==
    CASE a = 0 -> ""
      [] a = 1 -> "lost phase"
      [] a = 2 -> "over current"
      [] a = 3 -> "overheat or over power"
      [] a = 4 -> "corrupt command"
      [] a > 4 -> "TBD"

\* the bit table of C10: in position iff bit0 clear, motor free iff bit1
\* set, alarm from bits 2-4, motion busy iff bit5 set, pin2 = bit6
StatusBitTable ==
    LET s == StatusValue
        d == outcome.val.x
    IN  /\ outcome.kind = "return"
        /\ outcome.val.func_id = 25
        /\ (d.in_position = "1") <=> (s % 2 = 0)
        /\ d.in_position \in {"0", "1"}
        /\ (d.motor = "motor free") <=> ((s \div 2) % 2 = 1)
        /\ d.alarm = AlarmName((s \div 4) % 8)
        /\ (d.motion = "busy") <=> ((s \div 32) % 2 = 1)
        /\ (d.pin2 = "1") <=> ((s \div 64) % 2 = 1)
        /\ d.pin2 \in {"0", "1"}

\* C10, as claimed: the bit table, and s = 0x22 decodes to in_position
\* false, motor_free true, no alarm, motion_busy false, pin2 false.
C10_StatusDecode_AsClaimed ==
    StatusDecoded
        => /\ StatusBitTable
           /\ StatusValue = 34
                => /\ outcome.val.x.in_position = "0"
                   /\ outcome.val.x.motor = "motor free"
                   /\ outcome.val.x.alarm = ""
                   /\ outcome.val.x.motion = "completed"
                   /\ outcome.val.x.pin2 = "0"

\* C10, amended: the bit table, and s = 0x22 (bit0 clear, bit1 and bit5
\* set) decodes to in_position true, motor_free true, no alarm,
\* motion_busy true, pin2 false.
C10_StatusDecode ==
    StatusDecoded
        => /\ StatusBitTable
           /\ StatusValue = 34
                => /\ outcome.val.x.in_position = "1"
                   /\ outcome.val.x.motor = "motor free"
                   /\ outcome.val.x.alarm = ""
                   /\ outcome.val.x.motion = "busy"
                   /\ outcome.val.x.pin2 = "0"

\* C10 witness: the status value 0x22 was decoded.
C10_Witness ==
    /\ StatusDecoded
    /\ StatusValue = 34
    /\ outcome.kind = "return"
    /\ outcome.val.x.motion = "busy"

\* a config frame has just been decoded by read_response
ConfigDecoded ==
    /\ pc = "done"
    /\ op = "read_response"
    /\ FrameRead
    /\ ChecksumRelation(rd.arr)
    /\ Len(rd.arr) = 4
    /\ FrameFid(rd.arr) = 26

\* the config value c = byte2 & 0x7f of the frame just read
ConfigValue == rd.arr[3] % 128

InputModeName(m) ==
    CASE m = 0 -> "RS232"
      [] m = 1 -> "CW/CCW"
      [] m = 2 -> "pulse/dir"
      [] m = 3 -> "analog"

ServoModeName(m) ==
    CASE m = 0 -> "position"
      [] m = 1 -> "speed"
      [] m = 2 -> "torque"
      [] m = 3 -> "TBD"

GearDecoded ==
    /\ pc = "done"
    /\ op = "read_response"
    /\ FrameRead
    /\ ChecksumRelation(rd.arr)
    /\ Len(rd.arr) = 7
    /\ FrameFid(rd.arr) = 24

\* C12: a checksum-valid 7-byte frame of identifier 0x18 with payload
\* b2..b5 decodes to the pair [(b2 & 0x7f) * 128 + (b3 & 0x7f),
\* (b4 & 0x7f) * 128 + (b5 & 0x7f)], each component in 0..16383; the
\* payload [1, 2, 3, 4] decodes to [130, 388].
C12_GearDecode ==
    GearDecoded
        => LET b == [k \in 1 .. 4 |-> FramePayload(rd.arr)[k] % 128]
               g == ListVal(128 * b[1] + b[2], 128 * b[3] + b[4])
           IN  /\ outcome = Returned(TupleVal(24, g))
               /\ g.a \in 0 .. 16383
               /\ g.b \in 0 .. 16383
               /\ b = <<1, 2, 3, 4>> => g = ListVal(130, 388)

\* C12 witness: the payload [1, 2, 3, 4] was decoded, to [130, 388].
C12_Witness ==
    /\ GearDecoded
    /\ FramePayload(rd.arr) = <<129, 130, 131, 132>>
    /\ outcome = Returned(TupleVal(24, ListVal(130, 388)))

\* the identifiers general_read lets through: {0x10..0x1b} and 0x1e
GeneralReadable == (16 .. 27) \cup {30}

\* C13: general_read(func_id) with func_id outside {0x10..0x1b, 0x1e} ends
\* with DMMExceptionUnknownFunctionID, having written nothing and read
\* nothing; with func_id inside it hands exactly one 4-byte request to the
\* transport, function 0x0e with the identifier as payload, and reads
\* nothing.  general_read2 raises no such error for any identifier and
\* hands its request to the transport.
C13_GeneralReadGuard ==
    [][ /\ \A f \in GeneralReadArgs :
              general_read(f) =>
                  /\ reads' = 0
                  /\ rx' = rx
                  /\ IF f \in GeneralReadable
                     THEN /\ outcome' # Raised("DMMExceptionUnknownFunctionID")
                          /\ Len(tx'.packet) = 4
                          /\ tx'.packet[1] = drive_id
                          /\ tx'.packet[2] = 128 + 14
                          /\ tx'.packet[3] = 128 + f
                     ELSE /\ outcome' = Raised("DMMExceptionUnknownFunctionID")
                          /\ tx = NoWrite
                          /\ tx' = NoWrite
        /\ \A f \in FuncIdArgs :
              general_read2(f) =>
                  /\ outcome' # Raised("DMMExceptionUnknownFunctionID")
                  /\ Len(tx'.packet) = 4
                  /\ tx'.packet[2] = 128 + f
      ]_vars

\* C13 witness: a general_read call ended with the unknown-identifier
\* error, nothing written and nothing read.
C13_Witness ==
    /\ pc = "done"
    /\ op = "general_read"
    /\ outcome = Raised("DMMExceptionUnknownFunctionID")
    /\ tx = NoWrite
    /\ reads = 0

\* the protocol errors: unexpected length, unknown function id, unexpected
\* function
ProtocolErrors ==
    {"DMMExceptionUnexpectedLength", "DMMExceptionUnknownFunctionID",
     "DMMExceptionUnexpectedFunc"}

\* the sending methods and the read_* methods, which send through them
Senders ==
    {"general_read", "general_read2", "set_Config", "set_speed"}
    \cup {o.name : o \in ReadOps}

\* the last serial.write reported a count other than the packet's length
ShortWrite == tx.packet # <<>> /\ tx.n # Len(tx.packet)

\* C14: when serial.write reports a count other than the packet's length,
\* the sending method, and the read_* method around it, ends at once with
\* DMMExceptionTruncatedWrite, which is none of the protocol errors; no
\* response is read and nothing is retried.
C14_ShortWriteRaises ==
    ShortWrite
        => /\ op \in Senders
           /\ pc = "done"
           /\ outcome = Raised("DMMExceptionTruncatedWrite")
           /\ outcome.exc \notin ProtocolErrors
           /\ reads = 0
           /\ rd = NoRead
           /\ ~InCheckResponse

\* C14 witness: read_Status had 2 of its 4 bytes written and ended with
\* the truncated-write error without reading.
C14_Witness ==
    /\ op = "read_Status"
    /\ Len(tx.packet) = 4
    /\ tx.n = 2
    /\ pc = "done"
    /\ outcome = Raised("DMMExceptionTruncatedWrite")
    /\ reads = 0

\* the high bit of a byte
HighBit(x) == x \div 128

\* C15: every frame the reader loop of read_response completes starts with
\* a byte whose high bit is 0, has the high bit set in every later byte,
\* and is 4 + ((frame[1] >> 5) & 0x03) bytes long.
C15_ReaderOutputShape ==
    FrameRead
        => /\ HighBit(rd.arr[1]) = 0
           /\ \A k \in 2 .. Len(rd.arr) : HighBit(rd.arr[k]) = 1
           /\ Len(rd.arr) = 4 + FrameLengthCode(rd.arr)
           /\ Len(rd.arr) \in 4 .. 7

\* q is the start of a frame that was cut off: a start byte, continuation
\* bytes, fewer bytes than its expected length
IsPartialFrame(q) ==
    /\ Len(q) >= 1
    /\ HighBit(q[1]) = 0
    /\ \A k \in 2 .. Len(q) : HighBit(q[k]) = 1
    /\ Len(q) >= 2 => Len(q) < 4 + FrameLengthCode(q)

\* f is a complete well-formed frame
IsWellFormedFrame(f) ==
    /\ Len(f) >= 4
    /\ HighBit(f[1]) = 0
    /\ \A k \in 2 .. Len(f) : HighBit(f[k]) = 1
    /\ Len(f) = 4 + FrameLengthCode(f)

\* C16: a byte with high bit 0 read while a frame is in progress makes the
\* reader drop the accumulator and the expected length and start over with
\* that byte alone; so on a partial frame followed by a complete
\* well-formed frame read_response reads to the end of the well-formed
\* frame, has accumulated exactly that frame, and ends as it does on that
\* frame alone.
C16_Resynchronisation ==
    [][ /\ (read_response_loop /\ rx # <<>> /\ HighBit(Head(rx)) = 0)
              => /\ rd'.arr = <<Head(rx)>>
                 /\ rd'.expected_len = 0
                 /\ pc' = "reading"
        /\ call_read_response
              => \A k \in 1 .. Len(rx) :
                    LET q == SubSeq(rx, 1, k)
                        f == SubSeq(rx, k + 1, Len(rx))
                    IN  (IsPartialFrame(q) /\ IsWellFormedFrame(f))
                            => /\ rd'.arr = f
                               /\ rd'.consumed = Len(rx)
                               /\ rx' = <<>>
                               /\ outcome' = Ends(read_response(f))
      ]_vars

\* C16 witness: a start byte arrived after the first three bytes of a
\* 7-byte frame, and the reader holds that byte alone.
C16_Witness ==
    /\ pc = "reading"
    /\ rd.consumed = 4
    /\ rd.arr = <<1>>
    /\ rd.expected_len = 0

ReadOpNames == {o.name : o \in ReadOps}

\* C17: a read_* method hands exactly one request to the transport, with
\* nothing read before it, and nothing is written while check_response
\* reads and retries; the method ends (value or exception) before the
\* next method starts, so no second request is written while one awaits
\* its response.
C17_OneRequestPerExchange ==
    [][ /\ (pc = "idle" /\ op' \in ReadOpNames)
              => /\ tx = NoWrite
                 /\ Len(tx'.packet) = 4
                 /\ reads' = 0
                 /\ rx' = rx
                 /\ pc' = "await" <=> tx'.n = Len(tx'.packet)
        /\ (pc = "await" /\ op \in ReadOpNames)
              => /\ tx' = tx
                 /\ Len(tx.packet) = 4
                 /\ op' = op
                 /\ reads' = reads + 1
        /\ (pc = "done" /\ op \in ReadOpNames)
              => /\ pc' = "idle"
                 /\ tx' = NoWrite
      ]_vars

\* C17 witness: read_GearNumber is about to make its third attempt, and
\* the one request it wrote is still the only one.
C17_Witness ==
    /\ pc = "await"
    /\ op = "read_GearNumber"
    /\ reads = 2
    /\ tx = [packet |-> <<0, 159, 128, 159>>, n |-> 4]

\* the frame layout of the protocol: the address in 5 bits with the high
\* bit clear, the function byte with its length code, the payload values
\* in 7 bits with the high bit set, 4 + length code bytes in all
FrameLayout(frame, did, lc, fid, values) ==
    /\ Len(values) = lc + 1
    /\ Len(frame) = 4 + lc
    /\ frame[1] = did % 32
    /\ HighBit(frame[1]) = 0
    /\ frame[2] = 128 + 32 * lc + (fid % 32)
    /\ \A k \in 1 .. Len(values) : frame[2 + k] = 128 + (values[k] % 128)

\* C18: every packet general_read, general_read2, set_Config and set_speed
\* build has byte0 = drive_id & 0x1f with the high bit clear, byte1 =
\* 0x80 | (length_code << 5) | (function_id & 0x1f), payload bytes
\* 0x80 | (value & 0x7f), and 4 + length_code bytes: 4 for the reads and
\* set_Config, 7 for set_speed.
C18_OutboundLayout ==
    [][ /\ \A f \in FuncIdArgs :
              general_read2(f) => FrameLayout(tx'.packet, drive_id, 0, f, <<0>>)
        /\ \A f \in GeneralReadArgs :
              (general_read(f) /\ tx'.packet # <<>>)
                  => FrameLayout(tx'.packet, drive_id, 0, 14, <<f>>)
        /\ set_Config => FrameLayout(tx'.packet, drive_id, 0, 7, <<43>>)
        /\ \A r \in Rpms :
              set_speed(r) =>
                  FrameLayout(tx'.packet, drive_id, 3, 10,
                              << r \div 2097152, r \div 16384, r \div 128, r >>)
      ]_vars

\* the pairing of C19: the method, the function and payload of the request
\* it sends, and the drive-side identifier it awaits
Pairing ==
    { <<"read_MainGain",    24,  0, 16>>, <<"read_SpeedGain",   25,  0, 17>>,
      <<"read_IntGain",     26,  0, 18>>, <<"read_TrqCons",     27,  0, 19>>,
      <<"read_HighSpeed",   28,  0, 20>>, <<"read_HighAccel",   29,  0, 21>>,
      <<"read_Pos_OnRange", 30,  0, 23>>, <<"read_GearNumber",  31,  0, 24>>,
      <<"read_Status",       9,  0, 25>>, <<"read_Config",       8,  0, 26>>,
      <<"read_AbsPos32",    14, 27, 27>>, <<"read_TrqCurrent",  14, 30, 30>> }

\* C19: each read_* method awaits exactly the drive-side identifier paired
\* with the request it sent, and when it returns a value, the frame that
\* value was decoded from carried that identifier.
C19_RequestResponsePairing ==
    (op \in ReadOpNames /\ InCheckResponse)
        => /\ <<op, FrameFid(tx.packet), tx.packet[3] % 128, expected_func_id>> \in Pairing
           /\ (pc = "done" /\ outcome.kind = "return")
                 => FrameFid(rd.arr) = expected_func_id

\* the integers of 28 bits in two's complement
Signed28 == -134217728 .. 134217727

\* C20: for every r in [-2^27, 2^27 - 1], read_signed_val applied to the
\* 7-byte frame set_speed(r) builds gives back r.
C20_SignedRoundTrip ==
    [][ \A r \in Rpms :
          (set_speed(r) /\ r \in Signed28)
              => /\ Len(tx'.packet) = 7
                 /\ \A k \in 3 .. 6 : HighBit(tx'.packet[k]) = 1
                 /\ read_signed_val(tx'.packet) = r
      ]_vars

\* C20 witness: set_speed(-2^27) wrote its frame, whose payload
\* [0xc0, 0x80, 0x80, 0x80] reads back as -2^27.
C20_Witness ==
    /\ op = "set_speed"
    /\ tx.n = 7
    /\ FramePayload(tx.packet) = <<192, 128, 128, 128>>
    /\ read_signed_val(tx.packet) = -134217728

====
